---- MODULE Spec2Model ----
(***************************************************************************)
(* Model of emergency_detector.py: the two-stage triage of survey notes    *)
(* (keyword match, then a fallback call to an inference backend) and the   *)
(* batch loop of main() that queries the unprocessed features of a hosted  *)
(* feature layer, classifies each one and writes the flags back in one     *)
(* edit_features call.                                                     *)
(*                                                                         *)
(* Python strings are sequences of one-character strings, so that lower(), *)
(* upper(), strip() and the substring test `in` are computed, not assumed. *)
(***************************************************************************)
EXTENDS Integers, Sequences, FiniteSets, TLC

(***************************************************************************)
(* Bounds of the model.                                                    *)
(***************************************************************************)
NumRecords == 2      \* features in the layer, objectid 1..NumRecords

MaxLen == 5          \* longest text a function is called with on its own

(***************************************************************************)
(* Python values and string methods.                                       *)
(***************************************************************************)
NoneVal == [type |-> "none", chars |-> <<>>]

Str(cs) == [type |-> "str", chars |-> cs]

IntVal == [type |-> "int", chars |-> <<>>]

isinstance_str(v) == v.type = "str"

UpperLetters ==
    <<"A", "B", "C", "D", "E", "F", "G", "H", "I", "J", "K", "L", "M",
      "N", "O", "P", "Q", "R", "S", "T", "U", "V", "W", "X", "Y", "Z">>

LowerLetters ==
    <<"a", "b", "c", "d", "e", "f", "g", "h", "i", "j", "k", "l", "m",
      "n", "o", "p", "q", "r", "s", "t", "u", "v", "w", "x", "y", "z">>

Whitespace == {" ", "\t", "\n", "\r"}

\* position of character c in the alphabet seq, 0 when it is not in it
IndexIn(c, alphabet) ==
    IF \E k \in 1..Len(alphabet) : alphabet[k] = c
      THEN CHOOSE k \in 1..Len(alphabet) : alphabet[k] = c
      ELSE 0

\* character c with the letters of alphabet `from` replaced by those of `to`
Recase(c, from, to) ==
    LET k == IndexIn(c, from) IN IF k # 0 THEN to[k] ELSE c

RECURSIVE lower(_)
\* str.lower()
lower(cs) ==
    IF cs = <<>> THEN <<>>
    ELSE << Recase(Head(cs), UpperLetters, LowerLetters) >> \o lower(Tail(cs))

RECURSIVE upper(_)
\* str.upper()
upper(cs) ==
    IF cs = <<>> THEN <<>>
    ELSE << Recase(Head(cs), LowerLetters, UpperLetters) >> \o upper(Tail(cs))

RECURSIVE lstrip(_)
\* leading whitespace removed
lstrip(cs) ==
    IF cs # <<>> /\ Head(cs) \in Whitespace THEN lstrip(Tail(cs)) ELSE cs

RECURSIVE rstrip(_)
\* trailing whitespace removed
rstrip(cs) ==
    IF cs # <<>> /\ cs[Len(cs)] \in Whitespace
      THEN rstrip(SubSeq(cs, 1, Len(cs) - 1))
      ELSE cs

\* str.strip(): leading and trailing whitespace removed
strip(cs) == rstrip(lstrip(cs))

\* the substring test `w in cs`
Contains(cs, w) ==
    \E k \in 1..(Len(cs) - Len(w) + 1) : SubSeq(cs, k, k + Len(w) - 1) = w

(***************************************************************************)
(* Configuration of the script.                                            *)
(***************************************************************************)
REVIEW == "911_REVIEW"

OK == "OK"

\* ai_flag of a feature nobody has set: SQL NULL
Null == "NULL"

\* ai_flag set to the empty string (generate_test_data.py leaves it blank)
Blank == ""

emergency_words ==
    << <<"t", "r", "a", "p", "p", "e", "d">>,
       <<"u", "n", "c", "o", "n", "s", "c", "i", "o", "u", "s">>,
       <<"f", "i", "r", "e">>,
       <<"i", "n", "j", "u", "r", "e", "d">>,
       <<"c", "a", "n", "'", "t", " ", "b", "r", "e", "a", "t", "h", "e">>,
       <<"e", "m", "e", "r", "g", "e", "n", "c", "y">>,
       <<"u", "r", "g", "e", "n", "t">>,
       <<"h", "e", "l", "p">>,
       <<"a", "t", "t", "a", "c", "k">>,
       <<"b", "l", "e", "e", "d", "i", "n", "g">> >>

EMERGENCY == <<"E", "M", "E", "R", "G", "E", "N", "C", "Y">>

(***************************************************************************)
(* Stage 1: the keyword check.                                             *)
(***************************************************************************)
\* is_emergency_keyword without the call of lower()
is_emergency_keyword_CaseSensitive(text) ==
    IF ~isinstance_str(text) THEN FALSE
    ELSE \E w \in 1..Len(emergency_words) :
            Contains(text.chars, emergency_words[w])

is_emergency_keyword(text) ==
    IF ~isinstance_str(text) THEN FALSE
    ELSE \E text_lower \in {lower(text.chars)} :
            \E w \in 1..Len(emergency_words) :
               Contains(text_lower, emergency_words[w])

(***************************************************************************)
(* Stage 2: the call to the inference backend.  What the environment does  *)
(* at one call is a backend value: is the client library importable, is    *)
(* OPENAI_API_KEY set, and what chat.completions.create does.              *)
(***************************************************************************)
ReplyRaise == [kind |-> "raise", content |-> <<>>]

ReplyNoChoices == [kind |-> "no_choices", content |-> <<>>]

ReplyContent(cs) == [kind |-> "content", content |-> cs]

Backend(lib, key, reply) == [lib |-> lib, key |-> key, reply |-> reply]

\* the environments a call can meet, by name
Backends ==
    [ no_lib     |-> Backend(FALSE, TRUE, ReplyRaise),
      no_key     |-> Backend(TRUE, FALSE, ReplyRaise),
      \* transport, authentication or timeout exception
      raises     |-> Backend(TRUE, TRUE, ReplyRaise),
      \* response.choices is empty
      no_choices |-> Backend(TRUE, TRUE, ReplyNoChoices),
      \* empty completion
      empty      |-> Backend(TRUE, TRUE, ReplyContent(<<>>)),
      ok         |-> Backend(TRUE, TRUE, ReplyContent(<<"o", "k">>)),
      emergency  |-> Backend(TRUE, TRUE,
                        ReplyContent(<<" ", "E", "m", "e", "r", "g", "e",
                                       "n", "c", "y", "\n">>)) ]

BackendNames == DOMAIN Backends

\* the name recorded for a record whose analysis consulted no environment
NoBackend == "unused"

\* is_emergency_openai as it would be if the except clause returned True
is_emergency_openai_FailOpen(text, b) ==
    IF ~isinstance_str(text) \/ strip(text.chars) = <<>>
      THEN [ret |-> FALSE, raised |-> FALSE, probed |-> FALSE,
            request |-> FALSE, attempts |-> 0, printed |-> <<>>]
    ELSE IF ~b.lib
      THEN [ret |-> FALSE, raised |-> FALSE, probed |-> TRUE,
            request |-> FALSE, attempts |-> 0,
            printed |-> <<"openai_missing">>]
    ELSE IF ~b.key
      THEN [ret |-> FALSE, raised |-> FALSE, probed |-> TRUE,
            request |-> FALSE, attempts |-> 0,
            printed |-> <<"api_key_not_set">>]
    ELSE IF b.reply.kind \in {"raise", "no_choices"}
      THEN [ret |-> TRUE, raised |-> FALSE, probed |-> TRUE,
            request |-> TRUE, attempts |-> 1,
            printed |-> <<"api_error">>]
    ELSE LET result == upper(strip(b.reply.content))
         IN  [ret |-> Contains(result, EMERGENCY), raised |-> FALSE,
              probed |-> TRUE, request |-> TRUE, attempts |-> 1,
              printed |-> <<>>]

\* is_emergency_openai as it would be without the try/except around the
\* request
is_emergency_openai_NoCatch(text, b) ==
    IF ~isinstance_str(text) \/ strip(text.chars) = <<>>
      THEN [ret |-> FALSE, raised |-> FALSE, probed |-> FALSE,
            request |-> FALSE, attempts |-> 0, printed |-> <<>>]
    ELSE IF ~b.lib
      THEN [ret |-> FALSE, raised |-> FALSE, probed |-> TRUE,
            request |-> FALSE, attempts |-> 0,
            printed |-> <<"openai_missing">>]
    ELSE IF ~b.key
      THEN [ret |-> FALSE, raised |-> FALSE, probed |-> TRUE,
            request |-> FALSE, attempts |-> 0,
            printed |-> <<"api_key_not_set">>]
    ELSE IF b.reply.kind \in {"raise", "no_choices"}
      THEN [ret |-> FALSE, raised |-> TRUE, probed |-> TRUE,
            request |-> TRUE, attempts |-> 1, printed |-> <<>>]
    ELSE LET result == upper(strip(b.reply.content))
         IN  [ret |-> Contains(result, EMERGENCY), raised |-> FALSE,
              probed |-> TRUE, request |-> TRUE, attempts |-> 1,
              printed |-> <<>>]

\* is_emergency_openai with the request made once more when it fails
is_emergency_openai_Retry(text, b) ==
    IF ~isinstance_str(text) \/ strip(text.chars) = <<>>
      THEN [ret |-> FALSE, raised |-> FALSE, probed |-> FALSE,
            request |-> FALSE, attempts |-> 0, printed |-> <<>>]
    ELSE IF ~b.lib
      THEN [ret |-> FALSE, raised |-> FALSE, probed |-> TRUE,
            request |-> FALSE, attempts |-> 0,
            printed |-> <<"openai_missing">>]
    ELSE IF ~b.key
      THEN [ret |-> FALSE, raised |-> FALSE, probed |-> TRUE,
            request |-> FALSE, attempts |-> 0,
            printed |-> <<"api_key_not_set">>]
    ELSE IF b.reply.kind \in {"raise", "no_choices"}
      THEN [ret |-> FALSE, raised |-> FALSE, probed |-> TRUE,
            request |-> TRUE, attempts |-> 2,
            printed |-> <<"api_error">>]
    ELSE LET result == upper(strip(b.reply.content))
         IN  [ret |-> Contains(result, EMERGENCY), raised |-> FALSE,
              probed |-> TRUE, request |-> TRUE, attempts |-> 1,
              printed |-> <<>>]

\* is_emergency_openai with `not text` in place of `not text.strip()`
is_emergency_openai_NoStrip(text, b) ==
    IF ~isinstance_str(text) \/ text.chars = <<>>
      THEN [ret |-> FALSE, raised |-> FALSE, probed |-> FALSE,
            request |-> FALSE, attempts |-> 0, printed |-> <<>>]
    ELSE IF ~b.lib
      THEN [ret |-> FALSE, raised |-> FALSE, probed |-> TRUE,
            request |-> FALSE, attempts |-> 0,
            printed |-> <<"openai_missing">>]
    ELSE IF ~b.key
      THEN [ret |-> FALSE, raised |-> FALSE, probed |-> TRUE,
            request |-> FALSE, attempts |-> 0,
            printed |-> <<"api_key_not_set">>]
    ELSE IF b.reply.kind \in {"raise", "no_choices"}
      THEN [ret |-> FALSE, raised |-> FALSE, probed |-> TRUE,
            request |-> TRUE, attempts |-> 1,
            printed |-> <<"api_error">>]
    ELSE LET result == upper(strip(b.reply.content))
         IN  [ret |-> Contains(result, EMERGENCY), raised |-> FALSE,
              probed |-> TRUE, request |-> TRUE, attempts |-> 1,
              printed |-> <<>>]

\* Result of is_emergency_openai(text) against backend b: the value
\* returned, whether an exception leaves the function instead (raised),
\* whether the environment was consulted at all (probed), whether a
\* request went to the backend, how many times chat.completions.create
\* was called (attempts), and the lines printed.
is_emergency_openai(text, b) ==
    IF ~isinstance_str(text) \/ strip(text.chars) = <<>>
      THEN [ret |-> FALSE, raised |-> FALSE, probed |-> FALSE,
            request |-> FALSE, attempts |-> 0, printed |-> <<>>]
    ELSE IF ~b.lib
      THEN \* except ImportError
           [ret |-> FALSE, raised |-> FALSE, probed |-> TRUE,
            request |-> FALSE, attempts |-> 0,
            printed |-> <<"openai_missing">>]
    ELSE IF ~b.key
      THEN [ret |-> FALSE, raised |-> FALSE, probed |-> TRUE,
            request |-> FALSE, attempts |-> 0,
            printed |-> <<"api_key_not_set">>]
    ELSE IF b.reply.kind \in {"raise", "no_choices"}
      THEN \* except Exception: the request raised, or choices[0] did
           [ret |-> FALSE, raised |-> FALSE, probed |-> TRUE,
            request |-> TRUE, attempts |-> 1,
            printed |-> <<"api_error">>]
    ELSE LET result == upper(strip(b.reply.content))
         IN  [ret |-> Contains(result, EMERGENCY), raised |-> FALSE,
              probed |-> TRUE, request |-> TRUE, attempts |-> 1,
              printed |-> <<>>]

(***************************************************************************)
(* The body of the loop of main() for one feature: both stages and the     *)
(* flag, with a record of which stage was invoked and what it met.  b is   *)
(* the name of the environment the semantic stage finds if it is called.   *)
(***************************************************************************)
\* the flag with the two labels exchanged
FlagOf_Swapped(is_emergency) == IF is_emergency THEN OK ELSE REVIEW

FlagOf(is_emergency) == IF is_emergency THEN REVIEW ELSE OK

\* What the loop body leaves of one feature: kw is the result of stage 1,
\* sem what stage 2 does when it is called, invoked whether it is called.
Decision(oid, b, kw, sem, invoked, is_emergency) ==
    [oid |-> oid,
     kw |-> kw,
     sem_invoked |-> invoked,
     request |-> invoked /\ sem.request,
     attempts |-> IF invoked THEN sem.attempts ELSE 0,
     backend |-> IF invoked /\ sem.probed THEN b ELSE NoBackend,
     sem_ret |-> invoked /\ sem.ret,
     raised |-> invoked /\ sem.raised,
     printed |-> IF invoked THEN sem.printed ELSE <<>>,
     is_emergency |-> is_emergency,
     flag |-> FlagOf(is_emergency)]

\* stage 2 is reached only when stage 1 returned False
Stages(oid, b, kw, sem) ==
    Decision(oid, b, kw, sem, ~kw, IF ~kw THEN sem.ret ELSE kw)

\* the loop body as it would be if stage 2 ran whatever stage 1 found
Triage_AlwaysSemantic(oid, text, b) ==
    LET kw  == is_emergency_keyword(text)
        sem == is_emergency_openai(text, Backends[b])
    IN  Decision(oid, b, kw, sem, TRUE, kw \/ sem.ret)

\* the loop body as it would be if the result of stage 2 replaced that of
\* stage 1 for every feature
Triage_SemanticDecides(oid, text, b) ==
    LET kw  == is_emergency_keyword(text)
        sem == is_emergency_openai(text, Backends[b])
    IN  Decision(oid, b, kw, sem, TRUE, sem.ret)

\* the one decision of the loop body, each stage evaluated once
Triage(oid, text, b) ==
    CHOOSE d \in {Stages(oid, b, kw, sem) :
                    kw \in {is_emergency_keyword(text)},
                    sem \in {is_emergency_openai(text, Backends[b])}} : TRUE

(***************************************************************************)
(* The feature layer and the runs of main().                               *)
(***************************************************************************)
Records == 1..NumRecords

\* the script runs as an operating-system process; two slots are enough
\* to let one run start while another has not finished
Procs == {"runA", "runB"}

\* notes a submission can carry in other_info_provided, by name; the
\* layer and the feature objects hold the name, Notes[name] is the value
Notes ==
    [ none    |-> NoneVal,
      blank   |-> Str(<<" ", " ">>),
      keyword |-> Str(<<"H", "e", "l", "p", "!">>),
      plain   |-> Str(<<"n", "o", " ", "p", "o", "w", "e", "r">>) ]

NoteNames == DOMAIN Notes

Terminal == {REVIEW, OK}

Statuses == {Null, Blank} \cup Terminal

\* the error object the store puts in the update result of a feature it
\* rejects; main() passes it on unread, so one per feature is enough
ErrorOf(oid) == IF oid % 2 = 1 THEN "err_1019" ELSE "err_1000"

ErrorReasons == {ErrorOf(r) : r \in Records}

\* ai_flag of a feature object returned by a query with
\* out_fields = objectid, other_info_provided
Absent == "ABSENT"

VARIABLES
    field_exists,     \* the layer has the ai_flag field
    ai_flag,          \* ai_flag of each feature in the layer
    notes,            \* other_info_provided of each feature in the layer
    last_write,       \* ids the latest edit_features accepted / rejected
    degraded,         \* ids written "OK" after a failed semantic stage
    pc,               \* where each run of main() is
    outcome,          \* how a run ended
    query_error,      \* layer.query raised in this run
    at_query,         \* the layer's ai_flag values when the run queried
    prior_write,      \* last_write when the run queried
    features,         \* features_to_process
    idx,              \* position of the loop in features_to_process
    updates,          \* updates
    submitted,        \* the features handed to edit_features
    decisions,        \* per feature analysed: what Triage did
    result,           \* updateResults returned by edit_features
    update_errors,    \* update_errors
    printed,          \* lines printed, with the count a line states
    writes,           \* edit_features calls made by the run
    arg,              \* the value a function is called with on its own
    answer            \* what that call did

vars == << field_exists, ai_flag, notes, last_write, degraded, pc, outcome,
           query_error, at_query,
           prior_write, features, idx, updates, submitted,
           decisions, result, update_errors, printed, writes, arg, answer >>

\* a function called on its own, outside any run of main()
call == << arg, answer >>

\* what the other steps of a run leave alone
aside == << arg, answer, degraded >>

store == << field_exists, ai_flag, notes >>


Line(name, n) == [line |-> name, n |-> n]

NoCount == -1

NoWrite == [ok |-> {}, failed |-> {}, raised |-> FALSE]

\* no function has been called on its own
NoAnswer == [fn |-> "none", ret |-> FALSE, b |-> NoBackend, d |-> << >>]

\* no run of main() has started
NoRun ==
    /\ last_write = NoWrite
    /\ degraded = {}
    /\ pc = [p \in Procs |-> "idle"]
    /\ outcome = [p \in Procs |-> "none"]
    /\ query_error = [p \in Procs |-> FALSE]
    /\ at_query = [p \in Procs |-> [r \in Records |-> Null]]
    /\ prior_write = [p \in Procs |-> NoWrite]
    /\ features = [p \in Procs |-> <<>>]
    /\ idx = [p \in Procs |-> 1]
    /\ updates = [p \in Procs |-> <<>>]
    /\ submitted = [p \in Procs |-> <<>>]
    /\ decisions = [p \in Procs |-> <<>>]
    /\ result = [p \in Procs |-> <<>>]
    /\ update_errors = [p \in Procs |-> <<>>]
    /\ printed = [p \in Procs |-> <<>>]
    /\ writes = [p \in Procs |-> 0]

Init ==
    /\ field_exists \in BOOLEAN
    /\ notes \in [Records -> NoteNames]
    /\ ai_flag \in [Records -> Statuses]
    /\ ~field_exists => \A r \in Records : ai_flag[r] = Null
    /\ NoRun
    /\ arg = NoneVal
    /\ answer = NoAnswer

\* main() returns (or falls off its end) with the given outcome
Return(p, how, lines) ==
    /\ pc' = [pc EXCEPT ![p] = "done"]
    /\ outcome' = [outcome EXCEPT ![p] = how]
    /\ printed' = [printed EXCEPT ![p] = printed[p] \o lines]

\* The scheduler starts the script; single-scheduler operation starts a
\* run only when no other run is in progress.
NoOtherRun(p) == \A q \in Procs \ {p} : pc[q] = "idle"

\* a new process takes the first free slot
FirstFree(p) == p = "runB" => pc["runA"] # "idle"

Start(p) ==
    /\ UNCHANGED aside
    /\ pc[p] = "idle"
    /\ FirstFree(p)
    /\ NoOtherRun(p)
    /\ pc' = [pc EXCEPT ![p] = "connect"]
    /\ printed' = [printed EXCEPT ![p] = << Line("starting", NoCount) >>]
    /\ UNCHANGED << store, last_write, outcome, query_error, at_query,
                    prior_write, features, idx,
                    updates, submitted, decisions,
                    result, update_errors, writes >>

\* Step 1: GIS(...) connects or raises
Connect(p) ==
    /\ UNCHANGED aside
    /\ pc[p] = "connect"
    /\ \/ /\ pc' = [pc EXCEPT ![p] = "layer"]
          /\ UNCHANGED << outcome, printed >>
       \/ Return(p, "connect_failed", << Line("connect_failed", NoCount) >>)
    /\ UNCHANGED << store, last_write, query_error, at_query,
                    prior_write, features, idx,
                    updates, submitted, decisions,
                    result, update_errors, writes >>

\* Step 2: FeatureLayer(...).properties loads or raises
AccessLayer(p) ==
    /\ UNCHANGED aside
    /\ pc[p] = "layer"
    /\ \/ /\ pc' = [pc EXCEPT ![p] = "field"]
          /\ UNCHANGED << outcome, printed >>
       \/ Return(p, "layer_failed", << Line("layer_failed", NoCount) >>)
    /\ UNCHANGED << store, last_write, query_error, at_query,
                    prior_write, features, idx,
                    updates, submitted, decisions,
                    result, update_errors, writes >>

\* Step 3: add the ai_flag field when the layer lacks it
EnsureField(p) ==
    /\ UNCHANGED aside
    /\ pc[p] = "field"
    /\ IF field_exists
         THEN /\ pc' = [pc EXCEPT ![p] = "query"]
              /\ UNCHANGED << field_exists, outcome, printed >>
         ELSE \/ /\ field_exists' = TRUE
                 /\ pc' = [pc EXCEPT ![p] = "query"]
                 /\ UNCHANGED << outcome, printed >>
              \/ /\ Return(p, "field_failed",
                           << Line("add_field_failed", NoCount) >>)
                 /\ UNCHANGED field_exists
    /\ UNCHANGED << ai_flag, notes, last_write, query_error, at_query,
                    prior_write, features,
                    idx, updates, submitted, decisions,
                    result, update_errors, writes >>

\* Step 4: the features whose ai_flag satisfies the where clause
\* "ai_flag IS NULL OR ai_flag = ''", in the order the layer returns them
\* a where clause without the test for the empty string
QueryClause_NullOnly(flag) == flag = Null

\* a where clause that leaves the "OK" features in
QueryClause_NotReview(flag) == flag # REVIEW

QueryClause(flag) == flag = Null \/ flag = Blank

\* the query without its where clause
Query_features_All ==
    [r \in Records |->
        [objectid |-> r, notes |-> notes[r], ai_flag |-> Absent]]

Query_features ==
    LET all == [r \in Records |->
                   [objectid |-> r, notes |-> notes[r], ai_flag |-> Absent]]
    IN  SelectSeq(all, LAMBDA f : QueryClause(ai_flag[f.objectid]))

\* the except clause of the query without its return
AfterQuery_NoReturn(p, query_raised, fs) ==
    /\ features' = [features EXCEPT ![p] = fs]
    /\ idx' = [idx EXCEPT ![p] = 1]
    /\ IF fs = <<>>
         THEN Return(p, "nothing_to_do",
                << Line("found", 0), Line("no_new_submissions", NoCount) >>)
         ELSE /\ pc' = [pc EXCEPT ![p] = "loop"]
              /\ printed' = [printed EXCEPT ![p] =
                    printed[p] \o << Line("found", Len(fs)) >>]
              /\ UNCHANGED outcome

\* the handling of the query result without the test for an empty list
AfterQuery_NoEmptyCheck(p, query_raised, fs) ==
    IF query_raised
      THEN /\ Return(p, "query_failed", << Line("query_failed", NoCount) >>)
           /\ UNCHANGED << features, idx >>
      ELSE /\ features' = [features EXCEPT ![p] = fs]
           /\ idx' = [idx EXCEPT ![p] = 1]
           /\ pc' = [pc EXCEPT ![p] = IF fs = <<>> THEN "apply" ELSE "loop"]
           /\ printed' = [printed EXCEPT ![p] =
                 printed[p] \o << Line("found", Len(fs)) >>]
           /\ UNCHANGED outcome

\* the try/except around layer.query and the test of its result:
\* query_raised tells whether layer.query raised, fs is what it returns
AfterQuery(p, query_raised, fs) ==
    IF query_raised
      THEN /\ Return(p, "query_failed", << Line("query_failed", NoCount) >>)
           /\ UNCHANGED << features, idx >>
      ELSE /\ features' = [features EXCEPT ![p] = fs]
           /\ idx' = [idx EXCEPT ![p] = 1]
           /\ IF fs = <<>>
                THEN Return(p, "nothing_to_do",
                       << Line("found", 0),
                          Line("no_new_submissions", NoCount) >>)
                ELSE /\ pc' = [pc EXCEPT ![p] = "loop"]
                     /\ printed' = [printed EXCEPT ![p] =
                           printed[p] \o << Line("found", Len(fs)) >>]
                     /\ UNCHANGED outcome

Query(p) ==
    /\ UNCHANGED aside
    /\ pc[p] = "query"
    /\ at_query' = [at_query EXCEPT ![p] = ai_flag]
    /\ prior_write' = [prior_write EXCEPT ![p] = last_write]
    /\ \E query_raised \in BOOLEAN :
          /\ query_error' = [query_error EXCEPT ![p] = query_raised]
          /\ AfterQuery(p, query_raised, Query_features)
    /\ UNCHANGED << store, last_write, updates, submitted, decisions,
                    result, update_errors, writes >>

\* the assignment as it would be if the feature object were the layer's row
LayerAfterAssign_WriteThrough(flagged) ==
    [ai_flag EXCEPT ![flagged.objectid] = flagged.ai_flag]

\* feature.attributes[FLAG_FIELD] = flag assigns to the feature object the
\* query returned, a copy held by the script: the layer keeps its values
LayerAfterAssign(flagged) == ai_flag

\* updates.append(feature) done for the emergencies only
AppendUpdate_EmergenciesOnly(batch, flagged) ==
    IF flagged.ai_flag = REVIEW THEN Append(batch, flagged) ELSE batch

\* updates.append(feature)
AppendUpdate(batch, flagged) == Append(batch, flagged)

\* Step 5: one iteration of the loop over features_to_process
Classify(p) ==
    /\ UNCHANGED aside
    /\ pc[p] = "loop"
    /\ idx[p] <= Len(features[p])
    /\ \E b \in BackendNames :
         \E feature \in {features[p][idx[p]]} :
         \E d \in {Triage(feature.objectid, Notes[feature.notes], b)} :
         \E flagged \in {[feature EXCEPT !.ai_flag = d.flag]} :
             \* an environment is a choice only when the call consults it
             /\ d.backend = NoBackend =>
                   b = CHOOSE c \in BackendNames : TRUE
             /\ decisions' = [decisions EXCEPT ![p] = Append(decisions[p], d)]
             /\ IF d.raised
                  THEN \* an exception out of the loop body ends main()
                       /\ Return(p, "crashed", << Line("traceback", NoCount) >>)
                       /\ UNCHANGED << ai_flag, features, updates, idx >>
                  ELSE /\ features' = [features EXCEPT ![p][idx[p]] = flagged]
                       /\ updates' =
                             [updates EXCEPT ![p] =
                                 AppendUpdate(updates[p], flagged)]
                       /\ ai_flag' = LayerAfterAssign(flagged)
                       /\ printed' = [printed EXCEPT ![p] =
                             printed[p]
                               \o << Line(IF d.kw THEN "keyword_found"
                                                  ELSE "sending_to_ai",
                                          NoCount) >>
                               \o [k \in 1..Len(d.printed) |->
                                     Line(d.printed[k], NoCount)]
                               \o << Line(d.flag, NoCount) >>]
                       /\ idx' = [idx EXCEPT ![p] = idx[p] + 1]
                       /\ pc' = [pc EXCEPT ![p] =
                             IF idx[p] = Len(features[p]) THEN "apply"
                                                          ELSE "loop"]
                       /\ UNCHANGED outcome
    /\ UNCHANGED << field_exists, notes, last_write, query_error, at_query,
                    prior_write, submitted, result, update_errors, writes >>

\* Step 6: edit_features(updates=updates) and the check of its response.
\* The layer answers with one update result per feature, or the call raises.
\* accepted tells, for each position of the batch, whether the layer took it
UpdateResults(batch, accepted) ==
    [k \in 1..Len(batch) |->
        [objectId |-> batch[k].objectid,
         success |-> accepted[k],
         error |-> IF accepted[k] THEN "none" ELSE ErrorOf(batch[k].objectid)]]

\* the comprehension with its condition inverted
UpdateErrors_Successes(results) ==
    LET kept == SelectSeq(results, LAMBDA r : r.success)
    IN  [k \in 1..Len(kept) |-> kept[k].error]

\* [r.get('error') for r in updateResults if not r.get('success')]
UpdateErrors(results) ==
    LET failed == SelectSeq(results, LAMBDA r : ~r.success)
    IN  [k \in 1..Len(failed) |-> failed[k].error]

\* a layer that would apply an update only to a feature still unprocessed
Applied_IfUnprocessed(batch, results) ==
    [r \in Records |->
        IF /\ ai_flag[r] \in {Null, Blank}
           /\ \E k \in 1..Len(batch) :
                 batch[k].objectid = r /\ results[k].success
          THEN LET k == CHOOSE k \in 1..Len(batch) :
                           batch[k].objectid = r /\ results[k].success
               IN  batch[k].ai_flag
          ELSE ai_flag[r]]

\* the layer after it applied the updates it reports as successful
Applied(batch, results) ==
    [r \in Records |->
        IF \E k \in 1..Len(batch) :
              batch[k].objectid = r /\ results[k].success
          THEN LET k == CHOOSE k \in 1..Len(batch) :
                           batch[k].objectid = r /\ results[k].success
               IN  batch[k].ai_flag
          ELSE ai_flag[r]]

Ids(fs) == {fs[k].objectid : k \in 1..Len(fs)}

\* the semantic stage ran for the record and did not get a usable answer:
\* library absent, key not set, the request raised, the response had no
\* choice or an empty completion
FailingBackends ==
    {b \in BackendNames :
        \/ ~Backends[b].lib
        \/ ~Backends[b].key
        \/ Backends[b].reply.kind \in {"raise", "no_choices"}
        \/ strip(Backends[b].reply.content) = <<>>}

SemanticFailed(d) == d.sem_invoked /\ d.backend \in FailingBackends

\* the accepted records of a batch whose "OK" comes from a semantic stage
\* that failed
Degraded(ds, results) ==
    {results[k].objectId :
        k \in {j \in 1..Len(results) :
                 /\ results[j].success
                 /\ \E i \in 1..Len(ds) :
                       /\ ds[i].oid = results[j].objectId
                       /\ SemanticFailed(ds[i])}}

\* the except clause around edit_features left out
WriteRaised_NoCatch(p) ==
    /\ Return(p, "crashed",
          << Line("applying", Len(updates[p])),
             Line("traceback", NoCount) >>)
    /\ last_write' = [ok |-> {}, failed |-> Ids(updates[p]), raised |-> TRUE]

\* edit_features raises: the except clause prints the error, main() goes
\* on to its last line
WriteRaised(p) ==
    /\ Return(p, "finished",
          << Line("applying", Len(updates[p])),
             Line("apply_failed", NoCount),
             Line("finished", NoCount) >>)
    /\ last_write' = [ok |-> {}, failed |-> Ids(updates[p]), raised |-> TRUE]

ApplyUpdates(p) ==
    /\ UNCHANGED call
    /\ pc[p] = "apply"
    /\ IF updates[p] # <<>>
         THEN /\ submitted' = [submitted EXCEPT ![p] = updates[p]]
              /\ writes' = [writes EXCEPT ![p] = writes[p] + 1]
              /\ \/ \* edit_features raises: nothing was applied
                    /\ WriteRaised(p)
                    /\ UNCHANGED << ai_flag, degraded, result,
                                    update_errors >>
                 \/ \E accepted \in [1..Len(updates[p]) -> BOOLEAN] :
                      \E results \in {UpdateResults(updates[p], accepted)} :
                      \E errors \in {UpdateErrors(results)} :
                          /\ ai_flag' = Applied(updates[p], results)
                          /\ result' = [result EXCEPT ![p] = results]
                          /\ update_errors' =
                                [update_errors EXCEPT ![p] = errors]
                          /\ degraded' =
                                degraded \cup Degraded(decisions[p], results)
                          /\ last_write' =
                                [ok |-> {results[k].objectId :
                                           k \in {j \in 1..Len(results) :
                                                    results[j].success}},
                                 failed |-> {results[k].objectId :
                                           k \in {j \in 1..Len(results) :
                                                    ~results[j].success}},
                                 raised |-> FALSE]
                          /\ Return(p, "finished",
                                << Line("applying", Len(updates[p])),
                                   Line("update_results", NoCount),
                                   Line(IF errors # <<>>
                                          THEN "errors_occurred"
                                          ELSE "all_updated", NoCount),
                                   Line("finished", NoCount) >>)
         ELSE /\ Return(p, "finished",
                    << Line("no_features_flagged", NoCount),
                       Line("finished", NoCount) >>)
              /\ UNCHANGED << ai_flag, last_write, degraded, submitted,
                              result, update_errors, writes >>
    /\ UNCHANGED << field_exists, notes, query_error, at_query, prior_write,
                    features, idx, updates, decisions >>

\* The process is killed while the script is running
Abort(p) ==
    /\ UNCHANGED aside
    /\ pc[p] \in {"connect", "layer", "field", "query", "loop", "apply"}
    /\ pc' = [pc EXCEPT ![p] = "done"]
    /\ outcome' = [outcome EXCEPT ![p] = "aborted"]
    /\ UNCHANGED << store, last_write, query_error, at_query,
                    prior_write, features,
                    idx, updates, submitted, decisions, result,
                    update_errors, printed, writes >>

\* The process exits; nothing of the run remains but the layer
Exit(p) ==
    /\ UNCHANGED aside
    /\ pc[p] = "done"
    /\ pc' = [pc EXCEPT ![p] = "idle"]
    /\ outcome' = [outcome EXCEPT ![p] = "none"]
    /\ query_error' = [query_error EXCEPT ![p] = FALSE]
    /\ at_query' = [at_query EXCEPT ![p] = [r \in Records |-> Null]]
    /\ prior_write' = [prior_write EXCEPT ![p] = NoWrite]
    /\ features' = [features EXCEPT ![p] = <<>>]
    /\ idx' = [idx EXCEPT ![p] = 1]
    /\ updates' = [updates EXCEPT ![p] = <<>>]
    /\ submitted' = [submitted EXCEPT ![p] = <<>>]
    /\ decisions' = [decisions EXCEPT ![p] = <<>>]
    /\ result' = [result EXCEPT ![p] = <<>>]
    /\ update_errors' = [update_errors EXCEPT ![p] = <<>>]
    /\ printed' = [printed EXCEPT ![p] = <<>>]
    /\ writes' = [writes EXCEPT ![p] = 0]
    /\ UNCHANGED << store, last_write >>

Next ==
    \E p \in Procs :
        \/ Start(p)
        \/ Connect(p)
        \/ AccessLayer(p)
        \/ EnsureField(p)
        \/ Query(p)
        \/ Classify(p)
        \/ ApplyUpdates(p)
        \/ Abort(p)
        \/ Exit(p)

Spec == Init /\ [][Next]_vars

(***************************************************************************)
(* The script run again and again by its scheduler, each run left to reach *)
(* its end, with the portal and the layer reachable.  The query answers    *)
(* sooner or later, and for each record the layer sooner or later accepts  *)
(* its update.                                                             *)
(***************************************************************************)
\* the step of a run with the outcome in which the service answers
ConnectOK(p) == Connect(p) /\ pc'[p] = "layer"

AccessLayerOK(p) == AccessLayer(p) /\ pc'[p] = "field"

EnsureFieldOK(p) == EnsureField(p) /\ pc'[p] = "query"

QueryOK(p) == Query(p) /\ ~query_error'[p]

\* edit_features returns and its result for record r is a success
ApplyAccepts(p, r) == ApplyUpdates(p) /\ r \in last_write'.ok

LiveNext ==
    \E p \in Procs :
        \/ Start(p)
        \/ ConnectOK(p)
        \/ AccessLayerOK(p)
        \/ EnsureFieldOK(p)
        \/ Query(p)
        \/ Classify(p)
        \/ ApplyUpdates(p)
        \/ Exit(p)

\* the query of some run returns
QueryAnswers == \E p \in Procs : QueryOK(p)

\* the batch write of some run succeeds for record r
WriteAccepts(r) == \E p \in Procs : ApplyAccepts(p, r)

\* the scheduler and the interpreter take the next step whenever there is
\* one; the query, and the write of each record, succeed again and again
\* when attempted again and again
LiveFairness ==
    /\ WF_vars(LiveNext)
    /\ SF_vars(QueryAnswers)
    /\ \A r \in Records : SF_vars(WriteAccepts(r))

LiveSpec == Init /\ [][LiveNext]_vars /\ LiveFairness

(***************************************************************************)
(* Runs that overlap: nothing in main() takes a lock or looks at another   *)
(* process, so a scheduler that does not wait for the previous run to end  *)
(* starts the script while another run is in progress.                     *)
(***************************************************************************)
StartOverlapping(p) ==
    /\ UNCHANGED aside
    /\ pc[p] = "idle"
    /\ FirstFree(p)
    /\ pc' = [pc EXCEPT ![p] = "connect"]
    /\ printed' = [printed EXCEPT ![p] = << Line("starting", NoCount) >>]
    /\ UNCHANGED << store, last_write, outcome, query_error, at_query,
                    prior_write, features, idx, updates, submitted,
                    decisions, result, update_errors, writes >>

\* two runs, each followed from its start to its end
OverlapNext ==
    \E p \in Procs :
        \/ StartOverlapping(p)
        \/ Connect(p)
        \/ AccessLayer(p)
        \/ EnsureField(p)
        \/ Query(p)
        \/ Classify(p)
        \/ ApplyUpdates(p)

\* a layer that has the field and in which nothing is processed yet
OverlapInit ==
    /\ field_exists = TRUE
    /\ notes \in [Records -> {"keyword", "plain"}]
    /\ ai_flag \in [Records -> {Null, Blank}]
    /\ NoRun
    /\ arg = NoneVal
    /\ answer = NoAnswer

OverlapSpec == OverlapInit /\ [][OverlapNext]_vars

(***************************************************************************)
(* The analysis functions called on their own: one call of                 *)
(* is_emergency_keyword, or of the loop body, with a value out of Inputs.  *)
(***************************************************************************)
Alphabet == {"f", "F", "i", "r", "e", " "}

Texts == UNION {[1..n -> Alphabet] : n \in 0..MaxLen}

\* values and texts the enumeration does not reach: other whitespace, the
\* other words of the vocabulary in some letter case, near misses
OtherTexts ==
    { <<"\t">>, <<"\n", " ">>, <<" ", "\r", "\t", "\n">>,
      <<"T", "r", "a", "p", "p", "e", "d">>,
      <<"U", "N", "C", "O", "N", "S", "C", "I", "O", "U", "S">>,
      <<"i", "s", " ", "I", "n", "J", "u", "R", "e", "D", ".">>,
      <<"C", "A", "N", "'", "T", " ", "B", "r", "e", "a", "t", "h", "e">>,
      <<"c", "a", "n", "t", " ", "b", "r", "e", "a", "t", "h", "e">>,
      <<"E", "m", "e", "r", "g", "e", "n", "c", "y", "!">>,
      <<"n", "o", "t", " ", "U", "r", "G", "e", "N", "t">>,
      <<"H", "E", "L", "P">>,
      <<"h", "e", "l", " ", "p">>,
      <<"A", "t", "t", "a", "c", "K">>,
      <<"B", "L", "E", "E", "D", "i", "n", "g">>,
      <<"b", "l", "e", "e", "d">>,
      <<"n", "o", " ", "p", "o", "w", "e", "r">> }

Inputs == {NoneVal, IntVal} \cup {Str(cs) : cs \in Texts \cup OtherTexts}

CallInit ==
    /\ field_exists = TRUE
    /\ notes = [r \in Records |-> "none"]
    /\ ai_flag = [r \in Records |-> Null]
    /\ NoRun
    /\ arg \in Inputs
    /\ answer = NoAnswer

CallKeyword ==
    /\ answer = NoAnswer
    /\ answer' = [fn |-> "is_emergency_keyword",
                  ret |-> is_emergency_keyword(arg),
                  b |-> NoBackend,
                  d |-> << >>]
    /\ UNCHANGED << arg, store, last_write, degraded, pc, outcome, query_error,
                    at_query, prior_write, features, idx, updates,
                    submitted, decisions, result, update_errors, printed,
                    writes >>

\* the loop body of main() for a feature whose note is arg
CallLoopBody ==
    /\ answer = NoAnswer
    /\ \E b \in BackendNames :
       \E d \in {Triage(1, arg, b)} :
          answer' = [fn |-> "loop_body", ret |-> d.is_emergency,
                     b |-> b, d |-> d]
    /\ UNCHANGED << arg, store, last_write, degraded, pc, outcome, query_error,
                    at_query, prior_write, features, idx, updates,
                    submitted, decisions, result, update_errors, printed,
                    writes >>

CallNext == CallKeyword \/ CallLoopBody

CallSpec == CallInit /\ [][CallNext]_vars

(***************************************************************************)
(* Vocabulary of the properties.                                           *)
(***************************************************************************)
Decisions(p) == {decisions[p][k] : k \in 1..Len(decisions[p])}

Finished(p) == pc[p] = "done" /\ outcome[p] = "finished"

\* the run's query returned (line "Found n new feature(s)" was printed)
Queried(p) == \E k \in 1..Len(printed[p]) : printed[p][k].line = "found"

Unprocessed(flags) == {r \in Records : flags[r] \in {Null, Blank}}

\* backends that answer with a label other than the emergency one
GenuineNegatives ==
    {b \in BackendNames :
        /\ Backends[b].lib /\ Backends[b].key
        /\ Backends[b].reply.kind = "content"
        /\ strip(Backends[b].reply.content) # <<>>
        /\ ~Contains(upper(strip(Backends[b].reply.content)), EMERGENCY)}

\* what main() keeps of a decision: is_emergency and the flag
DecisionOf(d) == << d.is_emergency, d.flag >>

\* the two stages applied to each note of the model
KeywordHit == [n \in NoteNames |-> is_emergency_keyword(Notes[n])]

SemanticTrue ==
    [n \in NoteNames |->
        [b \in BackendNames |->
            is_emergency_openai(Notes[n], Backends[b]).ret]]

\* the semantic stage ran for the record, consulted its environment and
\* returned True
SemanticSaysEmergency(d, n) ==
    d.sem_invoked /\ d.backend # NoBackend /\ SemanticTrue[n][d.backend]

\* the decisions main() reaches for a note when the backend answers with a
\* label other than the emergency one
NegativeDecisions ==
    [n \in NoteNames |->
        {DecisionOf(Triage(0, Notes[n], g)) : g \in GenuineNegatives}]

FailedResults(p) == {k \in 1..Len(result[p]) : ~result[p][k].success}

PrintedCounts(p) == {printed[p][k].n : k \in 1..Len(printed[p])} \ {NoCount}

(***************************************************************************)
(* C1: for every record a run has analysed, if the keyword stage is true   *)
(* of the record's note, the semantic stage was not invoked for it and no  *)
(* request went to the inference backend.                                  *)
(***************************************************************************)
C1_KeywordShortCircuit ==
    \A p \in Procs : \A d \in Decisions(p) :
        KeywordHit[notes[d.oid]] =>
            /\ ~d.sem_invoked
            /\ ~d.request
            /\ d.flag = REVIEW

C1_Witness ==
    \E p \in Procs : \E d \in Decisions(p) :
        /\ KeywordHit[notes[d.oid]]
        /\ Finished(p)
        /\ \E e \in Decisions(p) : e.request

C3_TerminalNeverRewritten ==
    [][ /\ \A r \in Records :
              /\ ai_flag[r] \in Terminal => ai_flag'[r] = ai_flag[r]
              /\ ai_flag'[r] # ai_flag[r] => ai_flag'[r] \in Terminal
        /\ \A p \in Procs :
              writes'[p] > writes[p] =>
                 \A k \in 1..Len(submitted'[p]) :
                    ai_flag[submitted'[p][k].objectid] \notin Terminal
      ]_vars

C3_Witness ==
    \E p \in Procs :
        /\ Finished(p)
        /\ writes[p] = 1
        /\ \E r \in prior_write[p].ok :
              /\ ai_flag[r] \in Terminal
              /\ r \notin Ids(submitted[p])
        /\ last_write.ok # {}

(***************************************************************************)
(* C4: a run whose query found every record "911_REVIEW" or "OK" analyses  *)
(* nothing, writes nothing and returns through the "no new submissions"    *)
(* exit (unless the query itself raised).                                  *)
(***************************************************************************)
C4_AllTerminalNoWork ==
    \A p \in Procs :
        (\A r \in Records : at_query[p][r] \in Terminal) =>
            /\ decisions[p] = <<>>
            /\ updates[p] = <<>>
            /\ submitted[p] = <<>>
            /\ writes[p] = 0
            /\ ai_flag = at_query[p]
            /\ pc[p] = "done"
            /\ outcome[p] = IF query_error[p] THEN "query_failed"
                                              ELSE "nothing_to_do"

C4_Witness ==
    \E p \in Procs :
        /\ \A r \in Records : at_query[p][r] \in Terminal
        /\ outcome[p] = "nothing_to_do"
        /\ last_write.ok = Records

(***************************************************************************)
(* C5: after a batch write, the records it accepted are "911_REVIEW" or    *)
(* "OK" in the layer and the records it rejected are still unprocessed; a  *)
(* later run's query returns exactly the unprocessed records, among them   *)
(* every rejected one and none of the accepted ones, and the run analyses  *)
(* and submits these and no other.                                         *)
(***************************************************************************)
C5_NextRunTakesOnlyFailed ==
    \A p \in Procs :
        /\ (Finished(p) /\ writes[p] = 1) =>
              /\ \A r \in last_write.ok : ai_flag[r] \in Terminal
              /\ \A r \in last_write.failed : ai_flag[r] = at_query[p][r]
              /\ last_write.failed \subseteq Unprocessed(ai_flag)
        /\ (Queried(p) /\ pc[p] # "idle") =>
              /\ Ids(features[p]) = Unprocessed(at_query[p])
              /\ prior_write[p].failed \subseteq Ids(features[p])
              /\ prior_write[p].ok \cap Ids(features[p]) = {}
              /\ {d.oid : d \in Decisions(p)} \subseteq Ids(features[p])
              /\ Ids(updates[p]) \subseteq Ids(features[p])
              /\ writes[p] > 0 => Ids(submitted[p]) = Ids(features[p])

C5_Witness ==
    \E p \in Procs :
        /\ pc[p] = "apply"
        /\ prior_write[p].ok # {}
        /\ prior_write[p].failed # {}
        /\ Ids(updates[p]) = prior_write[p].failed

(***************************************************************************)
(* C6 as stated: after the batch write the report states the number of     *)
(* records written and the number of records that failed, and lists the    *)
(* error of exactly the failed records.                                    *)
(***************************************************************************)
C6_ReportStatesCounts ==
    \A p \in Procs :
        (Finished(p) /\ result[p] # <<>>) =>
            /\ Cardinality(FailedResults(p)) \in PrintedCounts(p)
            /\ (Len(result[p]) - Cardinality(FailedResults(p)))
                  \in PrintedCounts(p)
            /\ Len(update_errors[p]) = Cardinality(FailedResults(p))

(***************************************************************************)
(* C6 amended: after the batch write the run prints the layer's update     *)
(* results, one per record submitted with its identifier, and the list of  *)
(* the errors of exactly the failed results in their order; it prints      *)
(* "errors occurred" when some result failed and "all updated" otherwise;  *)
(* the only count it states is the number of records submitted.            *)
(***************************************************************************)
C6_ReportListsFailures ==
    \A p \in Procs :
        (Finished(p) /\ result[p] # <<>>) =>
            /\ Len(result[p]) = Len(submitted[p])
            /\ \A k \in 1..Len(result[p]) :
                  result[p][k].objectId = submitted[p][k].objectid
            /\ Len(update_errors[p]) = Cardinality(FailedResults(p))
            /\ \A k \in FailedResults(p) :
                  update_errors[p][
                      Cardinality({j \in FailedResults(p) : j <= k})]
                     = result[p][k].error
            /\ \A j \in 1..Len(update_errors[p]) :
                  update_errors[p][j] \in ErrorReasons
            /\ \E k \in 1..Len(printed[p]) :
                  printed[p][k].line = "update_results"
            /\ (FailedResults(p) # {}) <=>
                  \E k \in 1..Len(printed[p]) :
                     printed[p][k].line = "errors_occurred"
            /\ (FailedResults(p) = {}) <=>
                  \E k \in 1..Len(printed[p]) :
                     printed[p][k].line = "all_updated"
            /\ PrintedCounts(p) = {Len(submitted[p])}

C6_Witness ==
    \E p \in Procs :
        /\ Finished(p)
        /\ FailedResults(p) # {}
        /\ Cardinality(FailedResults(p)) < Len(result[p])
        /\ \E j \in FailedResults(p) : \E k \in 1..Len(result[p]) :
              k < j /\ result[p][k].success

(***************************************************************************)
(* C7: from a run's query until its batch write the flags in the layer are *)
(* those the query saw; the analysis changes only the run's own feature    *)
(* objects, so a run that stops before the write leaves every flag as it   *)
(* was.                                                                    *)
(***************************************************************************)
C7_LayerUntouchedBeforeWrite ==
    \A p \in Procs :
        (Queried(p) /\ pc[p] # "idle" /\ writes[p] = 0) =>
            /\ ai_flag = at_query[p]
            /\ \A k \in 1..Len(updates[p]) :
                  /\ features[p][k].ai_flag = updates[p][k].ai_flag
                  /\ features[p][k].ai_flag \in Terminal
            /\ \A k \in (Len(updates[p]) + 1)..Len(features[p]) :
                  features[p][k].ai_flag = Absent

C7_Witness ==
    \E p \in Procs :
        /\ pc[p] = "done"
        /\ outcome[p] = "aborted"
        /\ Len(updates[p]) >= 1
        /\ Len(updates[p]) < Len(features[p])
        /\ ai_flag[updates[p][1].objectid] # updates[p][1].ai_flag

(***************************************************************************)
(* C8: no failure of the inference backend ends the run: the run never     *)
(* ends in an exception, the loop moves on to the next record, and a run   *)
(* that reaches the write has a decision for every record its query        *)
(* returned and submits all of them.                                       *)
(***************************************************************************)
C8_BackendFailureNeverAborts ==
    \A p \in Procs :
        /\ outcome[p] # "crashed"
        /\ pc[p] = "loop" =>
              /\ idx[p] <= Len(features[p])
              /\ Len(decisions[p]) = idx[p] - 1
        /\ (pc[p] = "apply" \/ Finished(p)) =>
              /\ Len(decisions[p]) = Len(features[p])
              /\ \A k \in 1..Len(features[p]) :
                    decisions[p][k].oid = features[p][k].objectid
              /\ updates[p] = features[p]
        /\ Finished(p) =>
              /\ submitted[p] = updates[p]
              /\ Ids(submitted[p]) = Unprocessed(at_query[p])

C8_Witness ==
    \E p \in Procs :
        /\ Finished(p)
        /\ Len(submitted[p]) >= 2
        /\ decisions[p][1].request
        /\ decisions[p][1].backend = "raises"
        /\ submitted[p][1].objectid = decisions[p][1].oid

(***************************************************************************)
(* C9: when layer.query raises, the run ends there: nothing is analysed,   *)
(* no request goes to the backend, edit_features is not called and no flag *)
(* in the layer changes.                                                   *)
(***************************************************************************)
C9_QueryFailureAborts ==
    \A p \in Procs :
        query_error[p] =>
            /\ pc[p] = "done"
            /\ outcome[p] = "query_failed"
            /\ features[p] = <<>>
            /\ decisions[p] = <<>>
            /\ updates[p] = <<>>
            /\ submitted[p] = <<>>
            /\ writes[p] = 0
            /\ ai_flag = at_query[p]

C9_Witness ==
    \E p \in Procs :
        /\ query_error[p]
        /\ outcome[p] = "query_failed"
        /\ Unprocessed(ai_flag) # {}

(***************************************************************************)
(* C10: every flag handed to edit_features is "911_REVIEW" or "OK"; it is  *)
(* "911_REVIEW" exactly when the keyword stage is true of the record's     *)
(* note or the semantic stage ran and returned true, and it is never the   *)
(* null or empty value of an unprocessed record.                           *)
(***************************************************************************)
C10_FlagMapping ==
    \A p \in Procs : \A k \in 1..Len(submitted[p]) :
        LET f == submitted[p][k]
            d == decisions[p][k]
            text == notes[f.objectid]
        IN  /\ d.oid = f.objectid
            /\ f.ai_flag \in {REVIEW, OK}
            /\ f.ai_flag \notin {Null, Blank, Absent}
            /\ f.ai_flag = REVIEW <=>
                  \/ KeywordHit[text]
                  \/ SemanticSaysEmergency(d, text)
            /\ f.ai_flag = OK <=>
                  /\ ~KeywordHit[text]
                  /\ ~SemanticSaysEmergency(d, text)

C10_Witness ==
    \E p \in Procs :
        /\ writes[p] = 1
        /\ \E k \in 1..Len(submitted[p]) :
              /\ ~decisions[p][k].kw
              /\ submitted[p][k].ai_flag = REVIEW
        /\ \E k \in 1..Len(submitted[p]) : submitted[p][k].ai_flag = OK

(***************************************************************************)
(* C11: when the note is null, not a string, empty or whitespace only, the *)
(* loop body makes no request to the inference backend (it does not even   *)
(* look for the library or the key), the semantic stage returns False and  *)
(* the flag is "OK", whatever the backend would have answered.             *)
(***************************************************************************)
NoText(v) ==
    \/ v.type # "str"
    \/ \A k \in 1..Len(v.chars) : v.chars[k] \in Whitespace

C11_BlankTextNoCall ==
    (answer.fn = "loop_body" /\ NoText(arg)) =>
        /\ ~answer.d.kw
        /\ answer.d.sem_invoked
        /\ ~answer.d.request
        /\ answer.d.backend = NoBackend
        /\ ~answer.d.sem_ret
        /\ ~answer.d.raised
        /\ answer.d.printed = <<>>
        /\ answer.d.flag = OK

C11_Witness ==
    /\ answer.fn = "loop_body"
    /\ arg.type = "str"
    /\ Len(arg.chars) >= 2
    /\ NoText(arg)
    /\ answer.b = "emergency"
    /\ answer.d.flag = OK

(***************************************************************************)
(* C13: with runs that overlap, every record edit_features accepts takes   *)
(* the flag of that batch whatever its flag was, a flag another run wrote  *)
(* included: the later write wins.  The witness is the interleaving in     *)
(* which both runs got the same record from their queries, both wrote it,  *)
(* with different flags, and the layer holds the flag of the later write.  *)
(***************************************************************************)
Accepted(p) ==
    {result[p][k].objectId : k \in {j \in 1..Len(result[p]) :
                                        result[p][j].success}}

FlagSubmitted(p, r) ==
    LET k == CHOOSE k \in 1..Len(submitted[p]) : submitted[p][k].objectid = r
    IN  submitted[p][k].ai_flag

C13_LastWriteWins ==
    [][ \A p \in Procs :
          writes'[p] > writes[p] =>
             \A k \in 1..Len(result'[p]) :
                result'[p][k].success =>
                   /\ submitted'[p][k].objectid = result'[p][k].objectId
                   /\ ai_flag'[result'[p][k].objectId]
                         = submitted'[p][k].ai_flag
      ]_vars

C13_Witness ==
    \E r \in Records :
        /\ \A p \in Procs :
              /\ Finished(p)
              /\ at_query[p][r] \in {Null, Blank}
              /\ r \in Accepted(p)
        /\ FlagSubmitted("runA", r) = REVIEW
        /\ FlagSubmitted("runB", r) = OK
        /\ r \in last_write.ok
        /\ ai_flag[r] = OK

(***************************************************************************)
(* C14 as stated: two classifications of the same record, its note         *)
(* unchanged, give the same flag whatever the backend does at each.        *)
(***************************************************************************)
C14_SameFlagEveryTime ==
    \A p \in Procs : \A q \in Procs :
        \A d \in Decisions(p) : \A e \in Decisions(q) :
            d.oid = e.oid => d.flag = e.flag

(***************************************************************************)
(* C14 amended: two classifications of the same record, its note           *)
(* unchanged, give the same flag when the keyword stage finds a word (no   *)
(* request is made then) and when the backend does the same at both; when  *)
(* the flags differ, the backend did not do the same, and the record is    *)
(* one the keyword stage found nothing in.  A classification changes no    *)
(* field of the layer: a step that adds a decision leaves the store as it  *)
(* is.                                                                     *)
(***************************************************************************)
C14_SameFlagForSameAnswer ==
    /\ [](\A p \in Procs : \A q \in Procs :
            \A d \in Decisions(p) : \A e \in Decisions(q) :
               d.oid = e.oid =>
                  /\ d.kw = e.kw
                  /\ d.kw => (d.flag = REVIEW /\ e.flag = REVIEW
                                /\ ~d.request /\ ~e.request)
                  /\ d.backend = e.backend => DecisionOf(d) = DecisionOf(e)
                  /\ d.flag # e.flag =>
                        /\ ~d.kw
                        /\ d.backend # e.backend
                        /\ d.sem_ret # e.sem_ret)
    /\ [][ (\E p \in Procs : Len(decisions'[p]) > Len(decisions[p]))
              => store' = store ]_vars

C14_Witness ==
    \E r \in Records :
        \E d \in Decisions("runA") : \E e \in Decisions("runB") :
            /\ d.oid = r
            /\ e.oid = r
            /\ d.backend = "raises"
            /\ e.backend = "emergency"
            /\ d.flag = OK
            /\ e.flag = REVIEW

(***************************************************************************)
(* C15: with the script run again and again, the query and each record's   *)
(* update succeeding sooner or later, every unprocessed record becomes     *)
(* "911_REVIEW" or "OK"; and a run whose batch was accepted only in part   *)
(* reaches its end all the same, the accepted records holding the flags    *)
(* the run gave them.                                                      *)
(***************************************************************************)
C15_SelfHeals ==
    /\ \A r \in Records :
          (ai_flag[r] \in {Null, Blank}) ~> (ai_flag[r] \in Terminal)
    /\ [](\A p \in Procs :
            result[p] # <<>> =>
               /\ Finished(p)
               /\ \A r \in Accepted(p) : ai_flag[r] = FlagSubmitted(p, r)
               /\ \A k \in FailedResults(p) :
                     ai_flag[result[p][k].objectId] \in {Null, Blank})

C15_Witness ==
    \E p \in Procs :
        /\ Finished(p)
        /\ prior_write[p].ok # {}
        /\ prior_write[p].failed # {}
        /\ Accepted(p) = prior_write[p].failed
        /\ \A r \in Records : ai_flag[r] \in Terminal

(***************************************************************************)
(* C16: is_emergency_keyword returns a Boolean for every input; it returns *)
(* True exactly when the input is a string in which some word of the       *)
(* vocabulary occurs at some position, letter case disregarded; it returns *)
(* False for null, for a value that is not a string and for the empty      *)
(* string.                                                                 *)
(***************************************************************************)
SameLetter(c, d) ==
    \/ c = d
    \/ \E i \in 1..Len(UpperLetters) :
          {c, d} = {UpperLetters[i], LowerLetters[i]}

OccursIgnoringCase(cs, w) ==
    \E k \in 1..Len(cs) :
        /\ k + Len(w) - 1 <= Len(cs)
        /\ \A j \in 1..Len(w) : SameLetter(cs[k + j - 1], w[j])

C16_KeywordExactly ==
    answer.fn = "is_emergency_keyword" =>
        /\ answer.ret \in BOOLEAN
        /\ answer.ret <=>
              /\ arg.type = "str"
              /\ \E w \in 1..Len(emergency_words) :
                    OccursIgnoringCase(arg.chars, emergency_words[w])
        /\ (arg.type # "str" \/ arg.chars = <<>>) => ~answer.ret

C16_Witness ==
    /\ answer.fn = "is_emergency_keyword"
    /\ answer.ret
    /\ arg.type = "str"
    /\ Len(arg.chars) = MaxLen
    /\ arg.chars[1] = " "
    /\ \E k \in 1..MaxLen : arg.chars[k] \in {"F", "E"}

(***************************************************************************)
(* C17: a run calls edit_features at most once; a run that found at least  *)
(* one unprocessed feature and reached its end called it exactly once,     *)
(* with a batch that holds the features its query returned, in that order, *)
(* each once and no other, each with the flag of its own decision.         *)
(***************************************************************************)
C17_OneBatchOfAllQueried ==
    \A p \in Procs :
        /\ writes[p] <= 1
        /\ writes[p] = 1 => submitted[p] # <<>>
        /\ (Finished(p) /\ features[p] # <<>>) =>
              /\ writes[p] = 1
              /\ Len(submitted[p]) = Len(features[p])
              /\ Ids(submitted[p]) = Unprocessed(at_query[p])
              /\ Cardinality(Ids(submitted[p])) = Len(submitted[p])
              /\ \A k \in 1..Len(submitted[p]) :
                    /\ submitted[p][k].objectid = features[p][k].objectid
                    /\ submitted[p][k].objectid = decisions[p][k].oid
                    /\ submitted[p][k].ai_flag = decisions[p][k].flag
                    /\ submitted[p][k].notes = notes[submitted[p][k].objectid]

C17_Witness ==
    \E p \in Procs :
        /\ Finished(p)
        /\ Len(submitted[p]) = NumRecords
        /\ submitted[p][1].ai_flag = OK
        /\ submitted[p][NumRecords].ai_flag = REVIEW
        /\ FailedResults(p) # {}

(***************************************************************************)
(* C18: in a run, each record is analysed once and the semantic stage      *)
(* calls chat.completions.create at most once for it; when that call fails *)
(* it is not made again and the record's decision is the one of that       *)
(* attempt: False, flag "OK".                                              *)
(***************************************************************************)
C18_OneRequestPerRecord ==
    \A p \in Procs : \A k \in 1..Len(decisions[p]) :
        LET d == decisions[p][k]
        IN  /\ d.attempts <= 1
            /\ d.request <=> d.attempts = 1
            /\ \A j \in 1..Len(decisions[p]) :
                  decisions[p][j].oid = d.oid => j = k
            /\ (d.request /\ d.backend \in FailingBackends) =>
                  /\ ~d.is_emergency
                  /\ d.flag = OK
            /\ (d.request /\ d.backend \notin FailingBackends) =>
                  (d.is_emergency <=> d.backend \notin GenuineNegatives)

C18_Witness ==
    \E p \in Procs :
        /\ Finished(p)
        /\ Len(decisions[p]) = NumRecords
        /\ \A k \in 1..Len(decisions[p]) :
              /\ decisions[p][k].attempts = 1
              /\ decisions[p][k].backend \in {"raises", "no_choices"}
        /\ last_write.ok # {}

(***************************************************************************)
(* C19: when edit_features raises, the run prints the error and reaches    *)
(* its end without calling edit_features again; no flag in the layer has   *)
(* changed since the run's query, so every feature of the batch is still   *)
(* unprocessed, and the query of the next run returns all of them.         *)
(***************************************************************************)
WriteFailed(p) ==
    \E k \in 1..Len(printed[p]) : printed[p][k].line = "apply_failed"

C19_WholeWriteFailure ==
    \A p \in Procs :
        /\ (WriteFailed(p) \/ (writes[p] = 1 /\ last_write.raised)) =>
              /\ WriteFailed(p)
              /\ Finished(p)
              /\ writes[p] = 1
              /\ result[p] = <<>>
              /\ ai_flag = at_query[p]
              /\ Ids(submitted[p]) = last_write.failed
              /\ Ids(submitted[p]) \subseteq Unprocessed(ai_flag)
              /\ last_write.ok = {}
        /\ (Queried(p) /\ prior_write[p].raised) =>
              /\ prior_write[p].failed # {}
              /\ prior_write[p].failed \subseteq Ids(features[p])
              /\ \A r \in prior_write[p].failed :
                    at_query[p][r] \in {Null, Blank}

C19_Witness ==
    \E p \in Procs :
        /\ pc[p] = "apply"
        /\ prior_write[p].raised
        /\ Cardinality(prior_write[p].failed) = NumRecords
        /\ Ids(updates[p]) = prior_write[p].failed

(***************************************************************************)
(* C20: a record written "OK" after a failed semantic stage stays "OK":    *)
(* no later run gets it from its query, analyses it or submits it,         *)
(* whatever the backend answers by then.  Only the run that wrote it still *)
(* holds it.                                                               *)
(***************************************************************************)
C20_DegradedIsTerminal ==
    \A r \in degraded :
        /\ ai_flag[r] = OK
        /\ \A p \in Procs :
              (\/ r \in Ids(features[p])
               \/ r \in Ids(submitted[p])
               \/ \E d \in Decisions(p) : d.oid = r) =>
                 /\ Finished(p)
                 /\ r \in last_write.ok
                 /\ \E d \in Decisions(p) : d.oid = r /\ SemanticFailed(d)

C20_Witness ==
    \E p \in Procs : \E r \in degraded :
        /\ Finished(p)
        /\ at_query[p][r] = OK
        /\ r \notin Ids(features[p])
        /\ \E d \in Decisions(p) :
              /\ d.backend = "emergency"
              /\ d.flag = REVIEW
              /\ notes[d.oid] = notes[r]
              /\ d.oid \in last_write.ok

====
